---------------------------- MODULE Spec2Model ----------------------------
(***************************************************************************)
(* A model of rgx's 2D shape kit: the triangulator (Shape::triangulate,    *)
(* Shape::circle), the shape Batch (src/kit/shape2d.rs) and the sprite     *)
(* batch (src/kit/mod.rs).                                                 *)
(*                                                                         *)
(* f32 values are fixed-point integers: the real x is the integer          *)
(* x * Scale, products and quotients are rounded toward zero, and the one  *)
(* non-finite value the code can produce from finite inputs (NaN, from     *)
(* 0/0 and 0*inf) is the reserved value NaN.                               *)
(***************************************************************************)
EXTENDS Integers, Sequences, FiniteSets, TLC

\* ------------------------------------------------------------------ bounds

\* Coordinates of the enumerated shapes are whole units 0..MaxCoord.
MaxCoord == 2
\* Stroke widths of the enumerated shapes are whole units 0..MaxWidth.
MaxWidth == 2
\* Circle radii of the enumerated shapes are whole units 0..MaxRadius.
MaxRadius == 2
\* Circle side counts of the enumerated shapes are 0..MaxSides.
MaxSides == 4
\* A Batch holds at most MaxItems shapes in the explored runs.
MaxItems == 2
\* At most MaxUploads calls of create_buffer are explored per batch.
MaxUploads == 2
\* A SpriteBatch holds at most MaxSprites sprites in the explored runs.
MaxSprites == 1

\* ------------------------------------------------------------------ f32

\* Fixed-point resolution of an f32: the real 1.0 is the integer Scale.
Scale == 1000

\* f32 NaN: a value no finite computation of the model produces.
NaN == -(Scale * Scale * Scale)

IsNaN(a) == a = NaN

\* a / b for b > 0, rounded toward zero.
TDiv(a, b) == IF a >= 0 THEN a \div b ELSE -((-a) \div b)

FAdd(a, b) == IF IsNaN(a) \/ IsNaN(b) THEN NaN ELSE a + b

FSub(a, b) == IF IsNaN(a) \/ IsNaN(b) THEN NaN ELSE a - b

FMul(a, b) == IF IsNaN(a) \/ IsNaN(b) THEN NaN ELSE TDiv(a * b, Scale)

\* a / b: 0/0 is NaN. No caller divides a non-zero value by zero.
FDiv(a, b) ==
    IF IsNaN(a) \/ IsNaN(b) \/ b = 0 THEN NaN
    ELSE IF b > 0 THEN TDiv(a * Scale, b) ELSE -TDiv(a * Scale, -b)

RECURSIVE SqrtSearch(_, _, _)
SqrtSearch(x, lo, hi) ==
    IF lo >= hi THEN lo
    ELSE LET mid == (lo + hi + 1) \div 2
         IN  IF mid * mid <= x THEN SqrtSearch(x, mid, hi)
             ELSE SqrtSearch(x, lo, mid - 1)

\* The square root of a non-negative f32, rounded down.
FSqrt(a) ==
    IF IsNaN(a) THEN NaN
    ELSE LET x == a * Scale
         IN  SqrtSearch(x, 0, IF x < 46340 THEN x ELSE 46340)

\* sin(pi * a / b) for 0 <= a <= b, b > 0 (Bhaskara's rational approximation,
\* exact at 0, pi/6, pi/2, 5pi/6 and pi).
SinArc(a, b) == TDiv(Scale * 16 * a * (b - a), 5 * b * b - 4 * a * (b - a))

\* sin(pi * p / q) for p >= 0, q > 0.
SinHalfTurns(p, q) ==
    LET r == p % (2 * q)
    IN  IF r <= q THEN SinArc(r, q) ELSE -SinArc(r - q, q)

\* The angle i * (2*pi / sides) of Shape::circle, kept as the pair <<i, sides>>:
\* with sides = 0 the step 2*pi/0 is +inf and i = 0 is the only index, so the
\* angle is 0 * inf = NaN.
CircleAngle(i, sides) == <<i, sides>>

FCos(angle) ==
    IF angle[2] = 0 THEN NaN
    ELSE SinHalfTurns(angle[2] + 4 * angle[1], 2 * angle[2])

FSin(angle) ==
    IF angle[2] = 0 THEN NaN
    ELSE SinHalfTurns(2 * angle[1], angle[2])

\* ------------------------------------------------------------------ colours

\* core::Rgba: four f32 channels.
Rgba(r, g, b, a) == [r |-> r, g |-> g, b |-> b, a |-> a]

TRANSPARENT == Rgba(0, 0, 0, 0)

WHITE == Rgba(Scale, Scale, Scale, Scale)

RED == Rgba(Scale, 0, 0, Scale)

\* The colour of examples/circles.rs: half red, 0.75 alpha.
HALFRED == Rgba(Scale \div 2, 0, 0, (3 * Scale) \div 4)

\* Rgba -> Rgba8 (`color.into()`): each channel scaled to a byte.
ToRgba8(c) ==
    [r |-> TDiv(c.r * 255, Scale), g |-> TDiv(c.g * 255, Scale),
     b |-> TDiv(c.b * 255, Scale), a |-> TDiv(c.a * 255, Scale)]

\* ------------------------------------------------------------------ values

Point2(x, y) == [x |-> x, y |-> y]

\* shape2d::Vertex::new.
Vertex(x, y, z, angle, center, color) ==
    [position |-> <<x, y, z>>, angle |-> angle,
     center |-> <<center.x, center.y>>, color |-> color]

\* A variant of vertex that stamps angle 0 instead of the angle it is given.
vertexNoAngle(x, y, z, angle, center, color) == Vertex(x, y, z, 0, center, color)

\* shape2d::vertex.
vertex(x, y, z, angle, center, color) == Vertex(x, y, z, angle, center, color)

Stroke(width, color) == [width |-> width, color |-> color]

StrokeNONE == Stroke(0, TRANSPARENT)

\* A variant of StrokeEq that compares the colours only.
StrokeEqByColor(a, b) == a.color = b.color

\* A variant of the comparison that looks at the width alone.
StrokeEqByWidth(a, b) == a.width = b.width

\* Stroke's derived PartialEq: both fields equal.
StrokeEq(a, b) == a.width = b.width /\ a.color = b.color

FillEmpty == [tag |-> "Empty", c1 |-> TRANSPARENT, c2 |-> TRANSPARENT]

FillSolid(c) == [tag |-> "Solid", c1 |-> c, c2 |-> TRANSPARENT]

FillGradient(a, b) == [tag |-> "Gradient", c1 |-> a, c2 |-> b]

Rotation(angle, center) == [angle |-> angle, center |-> center]

RotationZERO == Rotation(0, Point2(0, 0))

Line(x1, y1, x2, y2) == [p1 |-> Point2(x1, y1), p2 |-> Point2(x2, y2)]

Rect(x1, y1, x2, y2) == [x1 |-> x1, y1 |-> y1, x2 |-> x2, y2 |-> y2]

ShapeLine(l, z, rot, stroke) ==
    [kind |-> "Line", l |-> l, z |-> z, rotation |-> rot, stroke |-> stroke]

ShapeRectangle(r, z, rot, stroke, fill) ==
    [kind |-> "Rectangle", r |-> r, z |-> z, rotation |-> rot,
     stroke |-> stroke, fill |-> fill]

ShapeCircle(position, z, radius, sides, stroke, fill) ==
    [kind |-> "Circle", position |-> position, z |-> z, radius |-> radius,
     sides |-> sides, stroke |-> stroke, fill |-> fill]

\* The outcome of a call: it returned `verts`, or it panicked and returned
\* nothing.
Returned(verts) == [panic |-> FALSE, verts |-> verts]

Panicked == [panic |-> TRUE, verts |-> <<>>]

\* ------------------------------------------------------------------ triangulate

\* cgmath's Vector2::normalize: v / sqrt(v.x*v.x + v.y*v.y); the zero vector
\* gives 0/0 = NaN in both components.
normalize(v) ==
    LET magnitude == FSqrt(FAdd(FMul(v.x, v.x), FMul(v.y, v.y)))
    IN  Point2(FDiv(v.x, magnitude), FDiv(v.y, magnitude))

\* A variant of the Line arm that offsets by the full width, not half of it.
TriangulateLineFullWidth(l, z, angle, center, width, color) ==
    LET v == normalize(Point2(FSub(l.p2.x, l.p1.x), FSub(l.p2.y, l.p1.y)))
        wx == FMul(width, v.y)
        wy == FMul(width, v.x)
        rgba8 == ToRgba8(color)
    IN  << vertex(FSub(l.p1.x, wx), FAdd(l.p1.y, wy), z, angle, center, rgba8),
           vertex(FAdd(l.p1.x, wx), FSub(l.p1.y, wy), z, angle, center, rgba8),
           vertex(FSub(l.p2.x, wx), FAdd(l.p2.y, wy), z, angle, center, rgba8),
           vertex(FSub(l.p2.x, wx), FAdd(l.p2.y, wy), z, angle, center, rgba8),
           vertex(FAdd(l.p1.x, wx), FSub(l.p1.y, wy), z, angle, center, rgba8),
           vertex(FAdd(l.p2.x, wx), FSub(l.p2.y, wy), z, angle, center, rgba8) >>

\* Shape::triangulate, the Line arm.
TriangulateLine(l, z, angle, center, width, color) ==
    LET v == normalize(Point2(FSub(l.p2.x, l.p1.x), FSub(l.p2.y, l.p1.y)))
        wx == FMul(FDiv(width, 2 * Scale), v.y)
        wy == FMul(FDiv(width, 2 * Scale), v.x)
        rgba8 == ToRgba8(color)
    IN  << vertex(FSub(l.p1.x, wx), FAdd(l.p1.y, wy), z, angle, center, rgba8),
           vertex(FAdd(l.p1.x, wx), FSub(l.p1.y, wy), z, angle, center, rgba8),
           vertex(FSub(l.p2.x, wx), FAdd(l.p2.y, wy), z, angle, center, rgba8),
           vertex(FSub(l.p2.x, wx), FAdd(l.p2.y, wy), z, angle, center, rgba8),
           vertex(FAdd(l.p1.x, wx), FSub(l.p1.y, wy), z, angle, center, rgba8),
           vertex(FAdd(l.p2.x, wx), FSub(l.p2.y, wy), z, angle, center, rgba8) >>

\* A variant of `inner` that is not inset: the declared rect itself.
RectInnerNoInset(r, width) == r

\* The Rectangle arm's `inner`: the rect inset by the stroke width.
RectInner(r, width) ==
    Rect(FAdd(r.x1, width), FAdd(r.y1, width),
         FSub(r.x2, width), FSub(r.y2, width))

\* The Rectangle arm's stroke vertices (`stroke != Stroke::NONE`).
RectStroke(outer, inner, z, angle, center, rgba8) ==
    << \* Bottom
       vertex(outer.x1, outer.y1, z, angle, center, rgba8),
       vertex(outer.x2, outer.y1, z, angle, center, rgba8),
       vertex(inner.x1, inner.y1, z, angle, center, rgba8),
       vertex(inner.x1, inner.y1, z, angle, center, rgba8),
       vertex(outer.x2, outer.y1, z, angle, center, rgba8),
       vertex(inner.x2, inner.y1, z, angle, center, rgba8),
       \* Left
       vertex(outer.x1, outer.y1, z, angle, center, rgba8),
       vertex(inner.x1, inner.y1, z, angle, center, rgba8),
       vertex(outer.x1, outer.y2, z, angle, center, rgba8),
       vertex(outer.x1, outer.y2, z, angle, center, rgba8),
       vertex(inner.x1, inner.y1, z, angle, center, rgba8),
       vertex(inner.x1, inner.y2, z, angle, center, rgba8),
       \* Right
       vertex(inner.x2, inner.y1, z, angle, center, rgba8),
       vertex(outer.x2, outer.y1, z, angle, center, rgba8),
       vertex(outer.x2, outer.y2, z, angle, center, rgba8),
       vertex(inner.x2, inner.y1, z, angle, center, rgba8),
       vertex(inner.x2, inner.y2, z, angle, center, rgba8),
       vertex(outer.x2, outer.y2, z, angle, center, rgba8),
       \* Top
       vertex(outer.x1, outer.y2, z, angle, center, rgba8),
       vertex(outer.x2, outer.y2, z, angle, center, rgba8),
       vertex(inner.x1, inner.y2, z, angle, center, rgba8),
       vertex(inner.x1, inner.y2, z, angle, center, rgba8),
       vertex(outer.x2, outer.y2, z, angle, center, rgba8),
       vertex(inner.x2, inner.y2, z, angle, center, rgba8) >>

\* A variant of the Rectangle fill that covers the rect with its first
\* triangle only.
RectFillSolidOneTriangle(inner, z, angle, center, rgba8) ==
    << vertex(inner.x1, inner.y1, z, angle, center, rgba8),
       vertex(inner.x2, inner.y1, z, angle, center, rgba8),
       vertex(inner.x2, inner.y2, z, angle, center, rgba8) >>

\* The Rectangle arm's Fill::Solid vertices.
RectFillSolid(inner, z, angle, center, rgba8) ==
    << vertex(inner.x1, inner.y1, z, angle, center, rgba8),
       vertex(inner.x2, inner.y1, z, angle, center, rgba8),
       vertex(inner.x2, inner.y2, z, angle, center, rgba8),
       vertex(inner.x1, inner.y1, z, angle, center, rgba8),
       vertex(inner.x1, inner.y2, z, angle, center, rgba8),
       vertex(inner.x2, inner.y2, z, angle, center, rgba8) >>

\* Shape::triangulate, the Rectangle arm.
TriangulateRectangle(r, z, angle, center, stroke, fill) ==
    LET width == stroke.width
        inner == RectInner(r, width)
        verts == IF ~StrokeEq(stroke, StrokeNONE)
                 THEN RectStroke(r, inner, z, angle, center, ToRgba8(stroke.color))
                 ELSE <<>>
    IN  CASE fill.tag = "Solid" ->
               Returned(verts \o RectFillSolid(inner, z, angle, center, ToRgba8(fill.c1)))
          [] fill.tag = "Gradient" -> Panicked
          [] fill.tag = "Empty" -> Returned(verts)

\* A variant of Shape::circle whose loop is `0..sides`: sides points, the
\* first one not repeated at the end.
circleOpen(position, radius, sides) ==
    [k \in 1..sides |->
        LET angle == CircleAngle(k - 1, sides)
        IN  Point2(FAdd(position.x, FMul(radius, FCos(angle))),
                   FAdd(position.y, FMul(radius, FSin(angle))))]

\* Shape::circle: sides + 1 points, the angle of point i being i * (2*pi/sides).
circle(position, radius, sides) ==
    [k \in 1..(sides + 1) |->
        LET angle == CircleAngle(k - 1, sides)
        IN  Point2(FAdd(position.x, FMul(radius, FCos(angle))),
                   FAdd(position.y, FMul(radius, FSin(angle))))]

\* The Circle arm's stroke loop, `for i in 0..n`, from index i on.
RECURSIVE CircleStrokeLoop(_, _, _, _, _, _, _)
CircleStrokeLoop(vs, inner, outer, z, rgba8, i, n) ==
    IF i >= n THEN vs
    ELSE LET i0 == inner[i + 1]
             i1 == inner[i + 2]
             o0 == outer[i + 1]
             o1 == outer[i + 2]
         IN  CircleStrokeLoop(
                 vs \o << vertex(i0.x, i0.y, z, 0, Point2(0, 0), rgba8),
                          vertex(o0.x, o0.y, z, 0, Point2(0, 0), rgba8),
                          vertex(o1.x, o1.y, z, 0, Point2(0, 0), rgba8),
                          vertex(i0.x, i0.y, z, 0, Point2(0, 0), rgba8),
                          vertex(o1.x, o1.y, z, 0, Point2(0, 0), rgba8),
                          vertex(i1.x, i1.y, z, 0, Point2(0, 0), rgba8) >>,
                 inner, outer, z, rgba8, i + 1, n)

\* A variant of the Circle stroke whose outer ring is the inner ring.
CircleStrokeNoOuter(position, z, radius, sides, inner, color) ==
    LET n == Len(inner) - 1
    IN  CircleStrokeLoop(<<>>, inner, inner, z, ToRgba8(color), 0, n)

\* The Circle arm's stroke vertices (`stroke != Stroke::NONE`).
CircleStroke(position, z, radius, sides, inner, color) ==
    LET outer == circle(position, radius, sides)
        n == Len(inner) - 1
    IN  CircleStrokeLoop(<<>>, inner, outer, z, ToRgba8(color), 0, n)

\* The Circle arm's fill loop, `for i in 0..sides`, from index i on.
RECURSIVE CircleFanLoop(_, _, _, _, _)
CircleFanLoop(verts, center, inner_verts, i, sides) ==
    IF i >= sides THEN verts
    ELSE CircleFanLoop(verts \o <<center, inner_verts[i + 1], inner_verts[i + 2]>>,
                       center, inner_verts, i + 1, sides)

\* A variant of the Circle fill without the closing triangle.
CircleFillSolidNoClosing(position, z, sides, inner, rgba8) ==
    LET center == Vertex(position.x, position.y, z, 0, Point2(0, 0), rgba8)
        inner_verts == [k \in 1..Len(inner) |->
                          Vertex(inner[k].x, inner[k].y, z, 0, Point2(0, 0), rgba8)]
    IN  CircleFanLoop(<<>>, center, inner_verts, 0, sides)

\* The Circle arm's Fill::Solid vertices: the fan loop, then the closing
\* triangle (center, last, first).
CircleFillSolid(position, z, sides, inner, rgba8) ==
    LET center == Vertex(position.x, position.y, z, 0, Point2(0, 0), rgba8)
        inner_verts == [k \in 1..Len(inner) |->
                          Vertex(inner[k].x, inner[k].y, z, 0, Point2(0, 0), rgba8)]
    IN  CircleFanLoop(<<>>, center, inner_verts, 0, sides)
          \o <<center, inner_verts[Len(inner_verts)], inner_verts[1]>>

\* The stroke loop's slice indexing stays in range: `inner.len() - 1` does not
\* underflow, and inner[i + 1], outer[i + 1] exist for every i in 0..n.
StrokeInBounds(inner, outer) ==
    /\ Len(inner) >= 1
    /\ Len(inner) <= Len(outer)

\* The fill's indexing stays in range: inner_verts[i + 1] exists for every i in
\* 0..sides, and last() / first() are Some.
FillInBounds(inner, sides) ==
    /\ Len(inner) >= 1
    /\ \A i \in 0..(sides - 1) : i + 1 < Len(inner)

\* Shape::triangulate, the Circle arm. An index out of range panics.
TriangulateCircle(position, z, radius, sides, stroke, fill) ==
    LET inner == circle(position, FSub(radius, stroke.width), sides)
        stroked == ~StrokeEq(stroke, StrokeNONE)
    IN  IF stroked /\ ~StrokeInBounds(inner, circle(position, radius, sides))
        THEN Panicked
        ELSE LET verts == IF stroked
                          THEN CircleStroke(position, z, radius, sides, inner, stroke.color)
                          ELSE <<>>
             IN  CASE fill.tag = "Solid" ->
                        IF FillInBounds(inner, sides)
                        THEN Returned(verts \o CircleFillSolid(position, z, sides, inner,
                                                               ToRgba8(fill.c1)))
                        ELSE Panicked
                   [] fill.tag = "Gradient" -> Panicked
                   [] fill.tag = "Empty" -> Returned(verts)

\* Shape::triangulate.
triangulate(s) ==
    CASE s.kind = "Line" ->
           Returned(TriangulateLine(s.l, s.z, s.rotation.angle, s.rotation.center,
                                    s.stroke.width, s.stroke.color))
      [] s.kind = "Rectangle" ->
           TriangulateRectangle(s.r, s.z, s.rotation.angle, s.rotation.center,
                                s.stroke, s.fill)
      [] s.kind = "Circle" ->
           TriangulateCircle(s.position, s.z, s.radius, s.sides, s.stroke, s.fill)

\* ------------------------------------------------------------------ inputs

Coords == {c * Scale : c \in 0..MaxCoord}

Points == {Point2(x, y) : x \in Coords, y \in Coords}

Strokes == {Stroke(w * Scale, c) : w \in 0..MaxWidth, c \in {TRANSPARENT, RED}}

Fills == {FillEmpty, FillSolid(WHITE), FillSolid(HALFRED), FillGradient(RED, WHITE)}

Depths == {0, Scale \div 2}

Rotations == {RotationZERO, Rotation(Scale, Point2(Scale, 2 * Scale))}

Lines == {ShapeLine([p1 |-> a, p2 |-> b], z, rot, st) :
            a \in Points, b \in Points, z \in Depths, rot \in Rotations, st \in Strokes}

Rectangles ==
    {ShapeRectangle(Rect(a.x, a.y, b.x, b.y), z, rot, st, f) :
        a \in Points, b \in Points, z \in Depths, rot \in Rotations,
        st \in Strokes, f \in Fills}

Circles ==
    {ShapeCircle(c, z, r * Scale, n, st, f) :
        c \in Points, z \in Depths, r \in 0..MaxRadius, n \in 0..MaxSides,
        st \in Strokes, f \in Fills}

\* Line((0,0)-(10,0), width 2, RED).
ExampleLine ==
    ShapeLine(Line(0, 0, 10 * Scale, 0), 0, RotationZERO, Stroke(2 * Scale, RED))

\* A slanted line of integral length: (0,0)-(3,4), width 10.
SlantedLine ==
    ShapeLine(Line(0, 0, 3 * Scale, 4 * Scale), 0, RotationZERO, Stroke(10 * Scale, RED))

\* Circle(center (0,0), radius 1, sides 4, Stroke::NONE, Fill::Solid(WHITE)).
ExampleCircle ==
    ShapeCircle(Point2(0, 0), Scale \div 2, Scale, 4, StrokeNONE, FillSolid(WHITE))

\* The shapes of the spec's scenarios, and a slanted line.
Examples == {ExampleLine, SlantedLine, ExampleCircle}

\* ------------------------------------------------------------------ state

VARIABLES
    shape,      \* the Shape `triangulate` was last called on
    out,        \* the outcome of that call
    called,     \* whether `triangulate` has been called on `shape`
    items,      \* Batch.items
    moved,      \* the Batch has been consumed by `finish(self)`
    op,         \* the last Batch operation
    ret,        \* the outcome of the last operation: the vertices of `vertices`,
                \* `buffer` (as uploaded) and `finish`, none for the others
    empty,      \* what the last operation returned if it was `is_empty`, else FALSE
    uploads,    \* create_buffer calls made for this Batch instance
    added,      \* the shapes added since the Batch was created or cleared
    sVertices,  \* SpriteBatch.vertices
    sBuffer,    \* SpriteBatch.buffer: "None" or "Some"
    sSize,      \* SpriteBatch.size
    sUploads,   \* create_buffer calls made for the SpriteBatch
    sPanic,     \* a SpriteBatch assertion or expectation has failed
    sFinishes   \* calls of SpriteBatch::finish made so far

vars == <<shape, out, called, items, moved, op, ret, empty, uploads, added,
          sVertices, sBuffer, sSize, sUploads, sPanic, sFinishes>>

spriteVars == <<sVertices, sBuffer, sSize, sUploads, sPanic, sFinishes>>

batchVars == <<items, moved, op, ret, empty, uploads, added>>

triVars == <<shape, out, called>>

\* ------------------------------------------------------------------ the triangulator alone

InitBatch ==
    /\ items = <<>>
    /\ moved = FALSE
    /\ op = "new"
    /\ ret = Returned(<<>>)
    /\ empty = FALSE
    /\ uploads = 0
    /\ added = <<>>
    /\ sVertices = <<>>
    /\ sBuffer = "None"
    /\ sSize = 0
    /\ sUploads = 0
    /\ sPanic = FALSE
    /\ sFinishes = 0

InitTri ==
    /\ shape \in Lines \cup Rectangles \cup Circles \cup Examples
    /\ out = Returned(<<>>)
    /\ called = FALSE
    /\ InitBatch

\* A call of Shape::triangulate on `shape`.
Triangulate ==
    /\ ~called
    /\ out' = triangulate(shape)
    /\ called' = TRUE
    /\ UNCHANGED <<shape, batchVars, spriteVars>>

NextTri == Triangulate

SpecTri == InitTri /\ [][NextTri]_vars

\* ------------------------------------------------------------------ properties of triangulate

Abs(a) == IF a < 0 THEN -a ELSE a

\* The x/y position of a vertex.
XY(v) == <<v.position[1], v.position[2]>>

\* The z of a vertex.
Depth(v) == v.position[3]

Returns == called /\ ~out.panic

\* A Circle with at least 3 sides, no stroke and a solid fill has been triangulated.
SolidCircleCase ==
    /\ Returns
    /\ shape.kind = "Circle"
    /\ shape.sides >= 3
    /\ shape.stroke = StrokeNONE
    /\ shape.fill.tag = "Solid"

\* C1 as stated: a Circle with sides = n >= 3, Stroke::NONE and Fill::Solid
\* triangulates to exactly n triangles, 3n vertices.
C1_AsStated == SolidCircleCase => Len(out.verts) = 3 * shape.sides

\* C1, amended: a Circle with sides = n >= 3, Stroke::NONE and Fill::Solid(c)
\* triangulates to exactly n + 1 triangles, 3(n + 1) vertices: the n fan
\* triangles (centre, inner[i], inner[i+1]) for i = 0..n-1, then one closing
\* triangle (centre, inner[n], inner[0]); inner is the ring of n + 1 boundary
\* points of radius `radius`.
C1_FanPlusClosing ==
    SolidCircleCase =>
        LET n == shape.sides
            ring == circle(shape.position, shape.radius, n)
            v == out.verts
        IN  /\ Len(v) = 3 * (n + 1)
            /\ \A t \in 0..n :
                  /\ XY(v[3 * t + 1]) = <<shape.position.x, shape.position.y>>
                  /\ XY(v[3 * t + 2]) = <<ring[t + 1].x, ring[t + 1].y>>
                  /\ XY(v[3 * t + 3]) =
                        IF t < n THEN <<ring[t + 2].x, ring[t + 2].y>>
                        ELSE <<ring[1].x, ring[1].y>>

\* The 4-sided unit circle of the spec's scenario has been triangulated: 15 vertices.
C1_Witness ==
    /\ SolidCircleCase
    /\ shape = ExampleCircle
    /\ Len(out.verts) = 15

\* A Circle with a solid fill has been triangulated (any sides, any stroke).
AnySolidCircleCase ==
    /\ called
    /\ shape.kind = "Circle"
    /\ shape.fill.tag = "Solid"

\* C11: for a Circle with a Solid fill and any sides = n >= 0, the ring has
\* exactly n + 1 points, triangulate does not panic (every ring index is in
\* range), and the fill part of the output, its last 3(n + 1) vertices, is the
\* n fan triangles (centre, inner[i], inner[i+1]), i = 0..n-1, followed by one
\* closing triangle (centre, inner[n], inner[0]).
C11_FillFanAnySides ==
    AnySolidCircleCase =>
        LET n == shape.sides
            ring == circle(shape.position, FSub(shape.radius, shape.stroke.width), n)
            base == Len(out.verts) - 3 * (n + 1)
            v == out.verts
        IN  /\ ~out.panic
            /\ Len(ring) = n + 1
            /\ base = IF shape.stroke = StrokeNONE THEN 0 ELSE 6 * n
            /\ \A t \in 0..n :
                  /\ XY(v[base + 3 * t + 1]) = <<shape.position.x, shape.position.y>>
                  /\ XY(v[base + 3 * t + 2]) = <<ring[t + 1].x, ring[t + 1].y>>
                  /\ XY(v[base + 3 * t + 3]) =
                        IF t < n THEN <<ring[t + 2].x, ring[t + 2].y>>
                        ELSE <<ring[1].x, ring[1].y>>

\* A stroked, solid Circle with sides = 0 has been triangulated to the closing
\* triangle alone, its one ring point being NaN.
C11_Witness ==
    /\ AnySolidCircleCase
    /\ shape.sides = 0
    /\ shape.stroke # StrokeNONE
    /\ ~out.panic
    /\ Len(out.verts) = 3
    /\ XY(out.verts[2]) = <<NaN, NaN>>

\* A Rectangle without stroke and with a solid fill has been triangulated.
SolidRectCase ==
    /\ Returns
    /\ shape.kind = "Rectangle"
    /\ shape.stroke = StrokeNONE
    /\ shape.fill.tag = "Solid"

\* C4: a Rectangle with Stroke::NONE and Fill::Solid(c) triangulates to exactly
\* 6 vertices, each at a corner of the declared rect and each coloured c.
C4_SolidRectSixCorners ==
    SolidRectCase =>
        /\ Len(out.verts) = 6
        /\ \A k \in 1..Len(out.verts) :
              /\ out.verts[k].position[1] \in {shape.r.x1, shape.r.x2}
              /\ out.verts[k].position[2] \in {shape.r.y1, shape.r.y2}
              /\ out.verts[k].color = ToRgba8(shape.fill.c1)

\* A proper rect (x1 < x2, y1 < y2) filled HALFRED without stroke has been
\* triangulated, and its vertices touch all four corners.
C4_Witness ==
    /\ SolidRectCase
    /\ shape.r.x1 < shape.r.x2
    /\ shape.r.y1 < shape.r.y2
    /\ shape.fill.c1 = HALFRED
    /\ {XY(out.verts[k]) : k \in 1..Len(out.verts)} =
          {<<x, y>> : x \in {shape.r.x1, shape.r.x2}, y \in {shape.r.y1, shape.r.y2}}

\* A Rectangle with a stroke of positive width has been triangulated.
StrokedRectCase ==
    /\ called
    /\ shape.kind = "Rectangle"
    /\ shape.stroke.width > 0
    /\ shape.fill.tag \in {"Empty", "Solid"}

\* C5: a Rectangle whose stroke width is > 0 triangulates to exactly 24
\* vertices when the fill is Empty and exactly 30 when the fill is Solid.
C5_StrokedRectCounts ==
    StrokedRectCase =>
        /\ ~out.panic
        /\ Len(out.verts) = IF shape.fill.tag = "Empty" THEN 24 ELSE 30

\* A Rectangle with a transparent stroke of positive width and a solid fill
\* has been triangulated to 30 vertices.
C5_Witness ==
    /\ StrokedRectCase
    /\ shape.stroke.color = TRANSPARENT
    /\ shape.fill.tag = "Solid"
    /\ Len(out.verts) = 30

\* A Rectangle with a stroke other than Stroke::NONE has been triangulated.
FramedRectCase ==
    /\ Returns
    /\ shape.kind = "Rectangle"
    /\ shape.stroke # StrokeNONE

\* The x/y positions of vertices from..to of the output.
XYs(from, to) == {XY(out.verts[k]) : k \in from..to}

StrokedCircleCase ==
    /\ Returns
    /\ shape.kind = "Circle"
    /\ shape.stroke # StrokeNONE

\* C13: for a Circle with sides = n and stroke # NONE the output starts with
\* exactly 6n stroke vertices, before any fill vertex: for each i in 0..n-1 the
\* quad (inner[i], outer[i], outer[i+1]), (inner[i], outer[i+1], inner[i+1]),
\* outer being the ring of radius `radius` (its point 0 at centre + (radius, 0))
\* and inner the ring of radius `radius - stroke.width`, all in the stroke colour.
C13_CircleStrokeQuads ==
    StrokedCircleCase =>
        LET n == shape.sides
            w == shape.stroke.width
            inner == circle(shape.position, shape.radius - w, n)
            outer == circle(shape.position, shape.radius, n)
            P(p) == <<p.x, p.y>>
            v == out.verts
        IN  /\ Len(v) = 6 * n + (IF shape.fill.tag = "Solid" THEN 3 * (n + 1) ELSE 0)
            /\ \A i \in 0..(n - 1) :
                  /\ XY(v[6 * i + 1]) = P(inner[i + 1])
                  /\ XY(v[6 * i + 2]) = P(outer[i + 1])
                  /\ XY(v[6 * i + 3]) = P(outer[i + 2])
                  /\ XY(v[6 * i + 4]) = P(inner[i + 1])
                  /\ XY(v[6 * i + 5]) = P(outer[i + 2])
                  /\ XY(v[6 * i + 6]) = P(inner[i + 2])
            /\ \A k \in 1..(6 * n) : v[k].color = ToRgba8(shape.stroke.color)
            /\ n >= 1 =>
                  /\ XY(v[1]) = <<shape.position.x + shape.radius - w, shape.position.y>>
                  /\ XY(v[2]) = <<shape.position.x + shape.radius, shape.position.y>>

\* A 4-sided Circle with a stroke of positive width and a solid fill has been
\* triangulated: 24 stroke vertices, then 15 fill vertices.
C13_Witness ==
    /\ StrokedCircleCase
    /\ shape.sides = 4
    /\ shape.stroke.width > 0
    /\ shape.radius > shape.stroke.width
    /\ shape.fill.tag = "Solid"
    /\ Len(out.verts) = 24 + 15

\* A Rectangle or a Circle has been triangulated.
RectOrCircleCase ==
    /\ Returns
    /\ shape.kind \in {"Rectangle", "Circle"}

\* The number of vertices the fill of the triangulated shape contributes.
FillCount ==
    IF shape.fill.tag = "Solid"
    THEN IF shape.kind = "Rectangle" THEN 6 ELSE 3 * (shape.sides + 1)
    ELSE 0

\* C14: for a Rectangle and a Circle, stroke geometry is emitted iff the stroke
\* is not the whole value Stroke::NONE (width 0 and transparent colour): any
\* other stroke, a width of 0 with a visible colour included, emits the full
\* stroke vertex set (24 for a Rectangle, 6 * sides for a Circle) in the stroke
\* colour, and exactly NONE emits no stroke vertex.
C14_StrokeIffNotNone ==
    RectOrCircleCase =>
        LET full == IF shape.kind = "Rectangle" THEN 24 ELSE 6 * shape.sides
            strokeCount == Len(out.verts) - FillCount
            isNone == shape.stroke.width = 0 /\ shape.stroke.color = TRANSPARENT
        IN  /\ strokeCount = IF isNone THEN 0 ELSE full
            /\ \A k \in 1..strokeCount :
                  out.verts[k].color = ToRgba8(shape.stroke.color)

\* A Rectangle without fill and with a stroke of width 0 in a visible colour
\* has been triangulated into the 24 stroke vertices.
C14_Witness ==
    /\ RectOrCircleCase
    /\ shape.kind = "Rectangle"
    /\ shape.fill.tag = "Empty"
    /\ shape.stroke.width = 0
    /\ shape.stroke.color # TRANSPARENT
    /\ Len(out.verts) = 24

\* A Line with distinct endpoints has been triangulated.
LineCase ==
    /\ Returns
    /\ shape.kind = "Line"
    /\ shape.l.p1 # shape.l.p2

\* C9: a Line with distinct endpoints p1, p2 and stroke width w triangulates to
\* exactly 6 vertices, two triangles (A, B, C), (C, B, D) sharing the edge B-C,
\* where A, B are p1 offset by +o and -o, C, D are p2 offset by +o and -o, and
\* o is perpendicular to p2 - p1 and w/2 long (to within 1%, the rounding of
\* the arithmetic; exactly for an axis-parallel line); every vertex has the
\* stroke colour.
C9_LineQuad ==
    LineCase =>
        LET v == out.verts
            p1 == shape.l.p1
            p2 == shape.l.p2
            w == shape.stroke.width
            dx == p2.x - p1.x
            dy == p2.y - p1.y
            A == XY(v[1])
            B == XY(v[2])
            C == XY(v[3])
            D == XY(v[6])
            ox == A[1] - p1.x
            oy == A[2] - p1.y
        IN  /\ Len(v) = 6
            /\ v[4] = v[3]
            /\ v[5] = v[2]
            /\ B = <<p1.x - ox, p1.y - oy>>
            /\ C = <<p2.x + ox, p2.y + oy>>
            /\ D = <<p2.x - ox, p2.y - oy>>
            /\ Abs(ox * dx + oy * dy) * 100 <= (Abs(ox) + Abs(oy)) * (Abs(dx) + Abs(dy))
            /\ Abs(4 * (ox * ox + oy * oy) - w * w) * 100 <= 2 * w * w
            /\ dy = 0 => ox = 0 /\ 2 * Abs(oy) = w
            /\ dx = 0 => oy = 0 /\ 2 * Abs(ox) = w
            /\ \A k \in 1..6 : v[k].color = ToRgba8(shape.stroke.color)

\* The line (0,0)-(10,0) of width 2 has been triangulated to the corners
\* (0,1), (0,-1), (10,1), (10,-1).
C9_Witness ==
    /\ LineCase
    /\ shape = ExampleLine
    /\ XY(out.verts[1]) = <<0, Scale>>
    /\ XY(out.verts[2]) = <<0, -Scale>>
    /\ XY(out.verts[3]) = <<10 * Scale, Scale>>
    /\ XY(out.verts[6]) = <<10 * Scale, -Scale>>

\* C10: every vertex of a Line or Rectangle carries the shape's rotation angle
\* and centre and the shape's z, and its x/y is what the same shape with
\* Rotation::ZERO gives; every vertex of a Circle carries angle 0, centre (0,0)
\* and the circle's z.
C10_RotationIsMetadata ==
    Returns =>
        \A k \in 1..Len(out.verts) :
            LET v == out.verts[k]
            IN  /\ Depth(v) = shape.z
                /\ shape.kind = "Circle" => v.angle = 0 /\ v.center = <<0, 0>>
                /\ shape.kind \in {"Line", "Rectangle"} =>
                      /\ v.angle = shape.rotation.angle
                      /\ v.center = <<shape.rotation.center.x, shape.rotation.center.y>>
                      /\ XY(v) = XY(triangulate([shape EXCEPT !.rotation = RotationZERO]).verts[k])

\* A Rectangle with a non-zero rotation and non-zero depth has been
\* triangulated to a non-empty vertex list.
C10_Witness ==
    /\ Returns
    /\ shape.kind = "Rectangle"
    /\ shape.rotation # RotationZERO
    /\ shape.z # 0
    /\ Len(out.verts) > 0

\* ------------------------------------------------------------------ Batch

\* Batch::vertices' loop over self.items from index i on; a panicking
\* triangulate unwinds through it and `buf` is dropped.
RECURSIVE VerticesLoop(_, _, _)
VerticesLoop(buf, its, i) ==
    IF i > Len(its) THEN Returned(buf)
    ELSE LET verts == triangulate(its[i])
         IN  IF verts.panic THEN Panicked
             ELSE VerticesLoop(buf \o verts.verts, its, i + 1)

\* A variant of the loop that skips a shape whose triangulation fails.
RECURSIVE VerticesLoopSkipping(_, _, _)
VerticesLoopSkipping(buf, its, i) ==
    IF i > Len(its) THEN Returned(buf)
    ELSE LET verts == triangulate(its[i])
         IN  VerticesLoopSkipping(buf \o verts.verts, its, i + 1)

\* A variant of Batch::vertices that returns the vertices of the shapes that
\* could be triangulated.
verticesPartial(its) == VerticesLoopSkipping(<<>>, its, 1)

\* A variant of the loop that puts each shape's vertices before the earlier ones.
RECURSIVE VerticesLoopPrepending(_, _, _)
VerticesLoopPrepending(buf, its, i) ==
    IF i > Len(its) THEN Returned(buf)
    ELSE LET verts == triangulate(its[i])
         IN  IF verts.panic THEN Panicked
             ELSE VerticesLoopPrepending(verts.verts \o buf, its, i + 1)

\* A variant of Batch::vertices that concatenates in reverse insertion order.
verticesPrepending(its) == VerticesLoopPrepending(<<>>, its, 1)

\* Batch::vertices.
vertices(its) == VerticesLoop(<<>>, its, 1)

\* The shapes the explored programs put into a Batch.
BatchShapes ==
    { ExampleLine,
      ShapeRectangle(Rect(0, 0, 2 * Scale, Scale), 0, RotationZERO, StrokeNONE, FillSolid(WHITE)),
      ShapeRectangle(Rect(0, 0, 2 * Scale, Scale), 0, RotationZERO, Stroke(Scale, RED), FillEmpty),
      ShapeRectangle(Rect(0, 0, 2 * Scale, Scale), 0, RotationZERO, StrokeNONE, FillGradient(RED, WHITE)),
      ShapeCircle(Point2(0, 0), 0, Scale, 3, StrokeNONE, FillSolid(HALFRED)),
      ShapeCircle(Point2(0, 0), 0, Scale, 4, Stroke(Scale, RED), FillGradient(RED, WHITE)) }

\* A panic has unwound the (single) thread of the program.
Aborted == ret.panic \/ sPanic

\* The Batch can be named: it has not been moved into `finish`.
Usable == ~Aborted /\ ~moved

\* Batch::new.
New ==
    /\ ~Aborted
    /\ items' = <<>>
    /\ moved' = FALSE
    /\ op' = "new"
    /\ ret' = Returned(<<>>)
    /\ empty' = FALSE
    /\ uploads' = 0
    /\ added' = <<>>
    /\ UNCHANGED <<triVars, spriteVars>>

\* Batch::singleton(shape).
Singleton ==
    /\ ~Aborted
    /\ \E s \in BatchShapes :
          /\ items' = Append(<<>>, s)
          /\ added' = <<s>>
    /\ moved' = FALSE
    /\ op' = "singleton"
    /\ ret' = Returned(<<>>)
    /\ empty' = FALSE
    /\ uploads' = 0
    /\ UNCHANGED <<triVars, spriteVars>>

\* Batch::add(shape).
Add ==
    /\ Usable
    /\ Len(items) < MaxItems
    /\ \E s \in BatchShapes :
          /\ items' = Append(items, s)
          /\ added' = Append(added, s)
    /\ op' = "add"
    /\ ret' = Returned(<<>>)
    /\ empty' = FALSE
    /\ UNCHANGED <<moved, uploads, triVars, spriteVars>>

\* A variant of Batch::vertices that drains self.items as it goes.
VerticesDraining ==
    /\ ~Aborted /\ ~moved
    /\ ret' = vertices(items)
    /\ items' = <<>>
    /\ op' = "vertices"
    /\ empty' = FALSE
    /\ UNCHANGED <<moved, uploads, added, triVars, spriteVars>>

\* Batch::vertices.
Vertices ==
    /\ Usable
    /\ ret' = vertices(items)
    /\ op' = "vertices"
    /\ empty' = FALSE
    /\ UNCHANGED <<items, moved, uploads, added, triVars, spriteVars>>

\* Batch::is_empty.
IsEmpty ==
    /\ Usable
    /\ empty' = (Len(items) = 0)
    /\ op' = "is_empty"
    /\ ret' = Returned(<<>>)
    /\ UNCHANGED <<items, moved, uploads, added, triVars, spriteVars>>

\* A variant of Batch::clear that leaves self.items alone.
ClearKeepsItems ==
    /\ ~Aborted /\ ~moved
    /\ added' = <<>>
    /\ op' = "clear"
    /\ ret' = Returned(<<>>)
    /\ empty' = FALSE
    /\ UNCHANGED <<items, moved, uploads, triVars, spriteVars>>

\* Batch::clear.
Clear ==
    /\ Usable
    /\ items' = <<>>
    /\ added' = <<>>
    /\ op' = "clear"
    /\ ret' = Returned(<<>>)
    /\ empty' = FALSE
    /\ UNCHANGED <<moved, uploads, triVars, spriteVars>>

\* Batch::buffer(&self, r): vertices(), then r.device.create_buffer.
Buffer ==
    /\ Usable
    /\ uploads < MaxUploads
    /\ LET buf == vertices(items)
       IN  /\ ret' = buf
           /\ uploads' = IF buf.panic THEN uploads ELSE uploads + 1
    /\ op' = "buffer"
    /\ empty' = FALSE
    /\ UNCHANGED <<items, moved, added, triVars, spriteVars>>

\* Batch::finish(self, r): self.buffer(r), the Batch being moved into the call.
Finish ==
    /\ Usable
    /\ uploads < MaxUploads
    /\ LET buf == vertices(items)
       IN  /\ ret' = buf
           /\ uploads' = IF buf.panic THEN uploads ELSE uploads + 1
    /\ moved' = TRUE
    /\ op' = "finish"
    /\ empty' = FALSE
    /\ UNCHANGED <<items, added, triVars, spriteVars>>

\* ------------------------------------------------------------------ SpriteBatch

\* kit::Vertex::new.
SpriteVertex(x, y, u, v, c) == [position |-> <<x, y>>, uv |-> <<u, v>>, color |-> c]

\* The texture of the explored SpriteBatch: 2 x 2 texels.
texture == [w |-> 1 + 1, h |-> 1 + 1]

\* The six vertices SpriteBatch::add computes for one sprite.
SpriteQuad(src, dst, c, rep) ==
    LET tw == texture.w * Scale
        th == texture.h * Scale
        rx1 == FDiv(src.x1, tw)
        ry1 == FDiv(src.y1, th)
        rx2 == FDiv(src.x2, tw)
        ry2 == FDiv(src.y2, th)
    IN  << SpriteVertex(dst.x1, dst.y1, FMul(rx1, rep.x), FMul(ry2, rep.y), c),
           SpriteVertex(dst.x2, dst.y1, FMul(rx2, rep.x), FMul(ry2, rep.y), c),
           SpriteVertex(dst.x2, dst.y2, FMul(rx2, rep.x), FMul(ry1, rep.y), c),
           SpriteVertex(dst.x1, dst.y1, FMul(rx1, rep.x), FMul(ry2, rep.y), c),
           SpriteVertex(dst.x1, dst.y2, FMul(rx1, rep.x), FMul(ry1, rep.y), c),
           SpriteVertex(dst.x2, dst.y2, FMul(rx2, rep.x), FMul(ry1, rep.y), c) >>

\* Repeat::default().
RepeatDefault == [x |-> Scale, y |-> Scale]

\* SpriteBatch::add(src, dst, c, rep).
SpriteAdd ==
    /\ ~Aborted
    /\ sSize < MaxSprites
    /\ IF sBuffer # "None"
       THEN /\ sPanic' = TRUE
            /\ UNCHANGED <<sVertices, sSize>>
       ELSE /\ sVertices' = sVertices \o
                   SpriteQuad(Rect(0, 0, Scale, Scale), Rect(0, 0, 2 * Scale, 2 * Scale),
                              ToRgba8(WHITE), RepeatDefault)
            /\ sSize' = sSize + 1
            /\ sPanic' = FALSE
    /\ UNCHANGED <<sBuffer, sUploads, sFinishes, triVars, batchVars>>

\* A variant of SpriteBatch::finish without its assertion.
SpriteFinishUnchecked ==
    /\ ~Aborted
    /\ sBuffer' = "Some"
    /\ sUploads' = sUploads + 1
    /\ sPanic' = FALSE
    /\ sFinishes' = sFinishes + 1
    /\ UNCHANGED <<sVertices, sSize, triVars, batchVars>>

\* SpriteBatch::finish(ctx).
SpriteFinish ==
    /\ ~Aborted
    /\ IF sBuffer # "None"
       THEN /\ sPanic' = TRUE
            /\ UNCHANGED <<sBuffer, sUploads>>
       ELSE /\ sBuffer' = "Some"
            /\ sUploads' = sUploads + 1
            /\ sPanic' = FALSE
    /\ sFinishes' = sFinishes + 1
    /\ UNCHANGED <<sVertices, sSize, triVars, batchVars>>

\* SpriteBatch::draw(pass).
SpriteDraw ==
    /\ ~Aborted
    /\ sPanic' = (sBuffer = "None")
    /\ UNCHANGED <<sVertices, sBuffer, sSize, sUploads, sFinishes, triVars, batchVars>>

\* ------------------------------------------------------------------ the program

Init ==
    /\ shape = ExampleLine
    /\ out = Returned(<<>>)
    /\ called = FALSE
    /\ InitBatch

Next ==
    \/ New
    \/ Singleton
    \/ Add
    \/ Vertices
    \/ IsEmpty
    \/ Clear
    \/ Buffer
    \/ Finish
    \/ SpriteAdd
    \/ SpriteFinish
    \/ SpriteDraw

Spec == Init /\ [][Next]_vars

\* ------------------------------------------------------------------ properties of Batch

\* Some shape of `its` is a Rectangle or Circle with a Gradient fill.
HasGradient(its) ==
    \E k \in 1..Len(its) :
        /\ its[k].kind \in {"Rectangle", "Circle"}
        /\ its[k].fill.tag = "Gradient"

\* C2: on a Batch holding a Gradient-filled Rectangle or Circle, a call of
\* vertices, buffer or finish fails as a whole: it panics, returns no vertex
\* (not those of the shapes before the gradient one), and create_buffer is
\* not invoked.
C2_GradientFailsWhole ==
    [][(op' \in {"vertices", "buffer", "finish"} /\ HasGradient(items)) =>
          /\ ret'.panic
          /\ ret'.verts = <<>>
          /\ uploads' = uploads]_vars

\* buffer has failed on a Batch whose first shape triangulates and whose
\* second shape has a Gradient fill; nothing was uploaded.
C2_Witness ==
    /\ op = "buffer"
    /\ ret.panic
    /\ Len(items) = 2
    /\ ~HasGradient(<<items[1]>>)
    /\ HasGradient(<<items[2]>>)
    /\ uploads = 0

\* C3 as stated: the upload step runs at most once per batch instance, for
\* the shape Batch (buffer / finish) and for the SpriteBatch (finish).
C3_UploadAtMostOnce == uploads <= 1 /\ sUploads <= 1

\* C3, amended: the terminal upload step, finish, runs at most once per batch
\* instance. Batch::finish consumes the Batch, so no operation (a second
\* finish included) follows it on that instance; a second SpriteBatch::finish
\* panics and uploads nothing, so a SpriteBatch is uploaded at most once.
\* Batch::buffer borrows the Batch and uploads on every call.
C3_FinishAtMostOnce ==
    /\ moved => op = "finish"
    /\ sUploads <= 1
    /\ sFinishes >= 1 => sUploads = 1
    /\ sFinishes >= 2 => sPanic

\* A Batch has been consumed by a finish that uploaded its vertices, and a
\* second SpriteBatch::finish has panicked after the first one uploaded.
C3_Witness ==
    /\ moved
    /\ op = "finish"
    /\ uploads = 1
    /\ Len(ret.verts) > 0
    /\ sFinishes = 2
    /\ sPanic
    /\ sUploads = 1

\* C6: what is_empty returns, and would return in any state, is TRUE exactly
\* when no shape has been added since the Batch was created or last cleared.
C6_EmptyIffNothingAdded ==
    /\ (Len(items) = 0) <=> (Len(added) = 0)
    /\ op = "is_empty" => (empty <=> Len(added) = 0)
    /\ op \in {"new", "clear"} => Len(items) = 0
    /\ op \in {"add", "singleton"} => Len(items) > 0

\* is_empty has returned FALSE on a Batch that shapes were added to.
C6_Witness ==
    /\ op = "is_empty"
    /\ ~empty
    /\ Len(added) = MaxItems

\* The number of vertices of the first k - 1 sequences of `seqs`.
RECURSIVE PrefixLen(_, _)
PrefixLen(seqs, k) ==
    IF k <= 1 THEN 0 ELSE PrefixLen(seqs, k - 1) + Len(seqs[k - 1])

\* C7: vertices returns the concatenation of triangulate(shape) over the shapes
\* added since the Batch was created or last cleared, in the order they were
\* added; its length is the sum of the per-shape vertex counts.
C7_VerticesConcatInOrder ==
    (op = "vertices" /\ ~ret.panic) =>
        LET per == [k \in 1..Len(added) |-> triangulate(added[k]).verts]
        IN  /\ Len(ret.verts) = PrefixLen(per, Len(added) + 1)
            /\ \A k \in 1..Len(added) :
                  \A j \in 1..Len(per[k]) :
                      ret.verts[PrefixLen(per, k) + j] = per[k][j]

\* vertices has returned the 6 vertices of a Line followed by the 12 of a
\* 3-sided solid Circle.
C7_Witness ==
    /\ op = "vertices"
    /\ ~ret.panic
    /\ Len(added) = 2
    /\ added[1].kind = "Line"
    /\ added[2].kind = "Circle"
    /\ Len(ret.verts) = 6 + 12

\* C8: a call of vertices leaves the Batch's shapes (hence is_empty) as they
\* were, and a call that directly follows another returns the same vertices.
C8_VerticesIsPureRead ==
    [][op' = "vertices" =>
          /\ items' = items
          /\ (Len(items') = 0) <=> (Len(items) = 0)
          /\ moved' = moved
          /\ op = "vertices" => ret' = ret]_vars

\* vertices has returned a non-empty vertex list for a non-empty Batch.
C8_Witness ==
    /\ op = "vertices"
    /\ ~ret.panic
    /\ Len(items) > 0
    /\ Len(ret.verts) > 0

=============================================================================
